---- MODULE Spec2Model ----
(***************************************************************************)
(* A model of src/src/index.tsx: the App component that looks up a GitHub  *)
(* user, shows the profile and lists the user's three most-starred         *)
(* repositories.  The state is App.state (user, repos) plus one record per *)
(* form submission that tracks where that submission's promise chain is.   *)
(***************************************************************************)
EXTENDS Integers, Sequences, FiniteSets, TLC

VARIABLES user, repos, chains, lastUserChain, lastReposChain, input, output,
          submissions

vars ==
  <<user, repos, chains, lastUserChain, lastReposChain, input, output,
    submissions>>

(***************************************************************************)
(* Bounds of the model.                                                    *)
(***************************************************************************)
\* number of form submissions explored
MaxSubmits == 2
\* longest repository response explored by the sorting specification
MaxRepos == 5

(***************************************************************************)
(* Values.                                                                 *)
(***************************************************************************)
\* JavaScript's undefined (a field the JSON response does not carry)
Undefined == "undefined"

\* what ReposRenderVisitor returns for NotFound and Nothing
Null == <<>>

\* the values typed into the "search-term" field
Usernames == {"alice", "bob", "ghost", ""}

\* star counts the repository records carry
StarValues == {1, 5, 9, 20}

\* a ResRepo record of the repository-list response
ResRepo(id, stars) ==
  [id |-> id, html_url |-> <<"html", id>>, name |-> <<"name", id>>,
   stargazers_count |-> stars]

RECURSIVE ResRepos(_, _)
\* the response whose i-th record has id base + i and stars[i] stars
ResRepos(base, stars) ==
  IF stars = <<>> THEN <<>>
  ELSE Append(ResRepos(base, SubSeq(stars, 1, Len(stars) - 1)),
              ResRepo(base + Len(stars), stars[Len(stars)]))

(***************************************************************************)
(* The upstream API: what the two endpoints answer.                        *)
(***************************************************************************)
\* the URL fetchUser requests
UserUrl(username) == <<"https://api.github.com/users/", username>>

\* the JSON body of the user-lookup endpoint
UserBody(username) ==
  CASE username = "alice" ->
         [message |-> Undefined, avatar_url |-> "alice.png", name |-> "Alice",
          bio |-> "bio of alice", repos_url |-> "repos/alice"]
    [] username = "bob" ->
         [message |-> Undefined, avatar_url |-> "bob.png", name |-> "Bob",
          bio |-> "bio of bob", repos_url |-> "repos/bob"]
    [] username = "ghost" ->
         [message |-> "Not Found", avatar_url |-> Undefined, name |-> Undefined,
          bio |-> Undefined, repos_url |-> Undefined]
    [] OTHER ->
         [message |-> "API rate limit exceeded", avatar_url |-> Undefined,
          name |-> Undefined, bio |-> Undefined, repos_url |-> Undefined]

\* whether the repository-list endpoint at reposUrl answers with a JSON array
ReposWellFormed(reposUrl) == reposUrl \in {"repos/alice", "repos/bob"}

\* the JSON body of the repository-list endpoint
ReposBody(reposUrl) ==
  CASE reposUrl = "repos/alice" -> ResRepos(0, <<5, 20, 20, 1, 9>>)
    [] reposUrl = "repos/bob" -> ResRepos(10, <<7, 3>>)
    [] OTHER -> <<>>

(***************************************************************************)
(* The Result variant and the two render visitors.                         *)
(***************************************************************************)
User(avatarUrl, name, bio) ==
  [tag |-> "User", avatarUrl |-> avatarUrl, name |-> name, bio |-> bio]

NotFound == [tag |-> "NotFound"]

Nothing == [tag |-> "Nothing"]

UserRenderVisitor_visitUser(u) ==
  << [el |-> "img", className |-> "user-avatar", content |-> u.avatarUrl],
     [el |-> "div", className |-> "user-name", content |-> u.name],
     [el |-> "div", className |-> "user-bio", content |-> u.bio] >>

UserRenderVisitor_visitNotFound ==
  << [el |-> "div", className |-> "warning-message",
      content |-> "User not found."] >>

\* visitNothing returning the other warning
UserRenderVisitor_visitNothing_NotFoundText ==
  << [el |-> "div", className |-> "warning-message",
      content |-> "User not found."] >>

UserRenderVisitor_visitNothing ==
  << [el |-> "div", className |-> "warning-message",
      content |-> "You haven't made any requests yet."] >>

ReposRenderVisitor_visitUser(rs) ==
  << [el |-> "div", className |-> "repo-section-title",
      content |-> "Top repositories"] >>
  \o [i \in 1..Len(rs) |->
        [el |-> "a", className |-> "repo-link", key |-> rs[i].id,
         href |-> rs[i].url, content |-> rs[i].name]]

\* visitNotFound rendering the list as visitUser does
ReposRenderVisitor_visitNotFound_List(rs) == ReposRenderVisitor_visitUser(rs)

ReposRenderVisitor_visitNotFound(rs) == Null

ReposRenderVisitor_visitNothing(rs) == Null

\* this.state.user.accept(userRenderVisitor)
RenderUser(u) ==
  CASE u.tag = "User" -> UserRenderVisitor_visitUser(u)
    [] u.tag = "NotFound" -> UserRenderVisitor_visitNotFound
    [] u.tag = "Nothing" -> UserRenderVisitor_visitNothing

\* this.state.user.accept(new ReposRenderVisitor(this.state.repos))
RenderRepos(u, rs) ==
  CASE u.tag = "User" -> ReposRenderVisitor_visitUser(rs)
    [] u.tag = "NotFound" -> ReposRenderVisitor_visitNotFound(rs)
    [] u.tag = "Nothing" -> ReposRenderVisitor_visitNothing(rs)

\* the two children of <section className="user-section">
ProfileView == RenderUser(user)

ReposView == RenderRepos(user, repos)

(***************************************************************************)
(* fetchRepos' computation of the repo list.                               *)
(***************************************************************************)
\* the comparator (a, b) => b.stargazers_count - a.stargazers_count
Compare(a, b) == b.stargazers_count - a.stargazers_count

RECURSIVE Insert_Unstable(_, _)
\* an insertion that puts x before the elements it compares equal to
Insert_Unstable(x, s) ==
  IF s = <<>> THEN <<x>>
  ELSE IF Compare(Head(s), x) < 0 THEN <<Head(s)>> \o Insert_Unstable(x, Tail(s))
  ELSE <<x>> \o s

RECURSIVE Insert(_, _)
\* x placed into the sorted s after every element that does not sort after it
Insert(x, s) ==
  IF s = <<>> THEN <<x>>
  ELSE IF Compare(Head(s), x) <= 0 THEN <<Head(s)>> \o Insert(x, Tail(s))
  ELSE <<x>> \o s

RECURSIVE Sort(_)
\* Array.prototype.sort with Compare: a stable sort
Sort(s) ==
  IF s = <<>> THEN <<>>
  ELSE Insert(s[Len(s)], Sort(SubSeq(s, 1, Len(s) - 1)))

\* (repo): Repo => ({id, name, url: repo.html_url})
ToRepo(repo) == [id |-> repo.id, name |-> repo.name, url |-> repo.html_url]

\* Array.prototype.slice(from, to) for 0 <= from <= to
Slice(s, from, to) ==
  SubSeq(s, from + 1, IF to < Len(s) THEN to ELSE Len(s))

\* the repo list without the final slice(0, 3)
TopRepos_NoCap(res) ==
  LET sorted == Sort(Slice(res, 0, Len(res)))
  IN  [i \in 1..Len(sorted) |-> ToRepo(sorted[i])]

\* res.slice().sort(...).map(...).slice(0, 3)
TopRepos(res) ==
  LET sorted == Sort(Slice(res, 0, Len(res)))
      mapped == [i \in 1..Len(sorted) |-> ToRepo(sorted[i])]
  IN  Slice(mapped, 0, 3)

(***************************************************************************)
(* fetchUser's handling of the user response.                              *)
(***************************************************************************)
\* any response that carries a message taken for not-found
IsNotFound_AnyMessage(res) == res.message # Undefined

\* the comparison with the sentinel misspelt
IsNotFound_Misspelt(res) == res.message = "Not found"

\* res.message === "Not Found"
IsNotFound(res) == res.message = "Not Found"

\* the constructor's arguments in the wrong order
FoundUser_Swapped(res) == User(res.avatar_url, res.bio, res.name)

\* new User(res.avatar_url, res.name, res.bio)
FoundUser(res) == User(res.avatar_url, res.name, res.bio)

(***************************************************************************)
(* The promise chains.  A chain is at                                      *)
(*   fetchUser   the user request is in flight                             *)
(*   jsonUser    the user response arrived, res.json() is pending          *)
(*   fetchRepos  the repository request is in flight                       *)
(*   jsonRepos   the repository response arrived, res.json() is pending    *)
(*   done        the chain's last callback returned                        *)
(*   rejected    the chain's promise rejected                              *)
(* reqs lists the requests the chain issued; userOut and reposOut tell how *)
(* each request ended; userSet is state.user as the user callback left it; *)
(* solo tells that no other chain was unsettled when this one was          *)
(* submitted; endState is App.state as the chain's last step left it.      *)
(***************************************************************************)
Settled(ch) == ch.pc \in {"done", "rejected"}

Quiescent == \A c \in DOMAIN chains : Settled(chains[c])

NoState == [user |-> Nothing, repos |-> <<>>]

NewChain(username) ==
  [username |-> username, pc |-> "fetchUser", reposUrl |-> Undefined,
   userOut |-> "pending", reposOut |-> "pending", userSet |-> Nothing,
   reqs |-> << [kind |-> "user", url |-> UserUrl(username)] >>,
   solo |-> Quiescent, endState |-> NoState]

\* a state that starts with a repo list already in it
Init_Preloaded ==
  /\ user = Nothing
  /\ repos = << [id |-> 0, name |-> "sample", url |-> "sample"] >>
  /\ chains = <<>>
  /\ lastUserChain = 0
  /\ lastReposChain = 0
  /\ input = [res |-> <<>>, sorted |-> TRUE]
  /\ output = <<>>
  /\ submissions = <<>>

\* state: AppState = {user: new Nothing(), repos: []}
Init ==
  /\ user = Nothing
  /\ repos = <<>>
  /\ chains = <<>>
  /\ lastUserChain = 0
  /\ lastReposChain = 0
  /\ input = [res |-> <<>>, sorted |-> TRUE]
  /\ output = <<>>
  /\ submissions = <<>>

\* a fetchUser that issues nothing while a lookup of the same name is pending
fetchUser_Dedup(username) ==
  chains' = IF \E c \in DOMAIN chains :
                 ~Settled(chains[c]) /\ chains[c].username = username
            THEN chains
            ELSE Append(chains, NewChain(username))

\* fetchUser(username) up to its fetch(...): the user request is issued and a
\* new promise chain waits for the response
fetchUser(username) == chains' = Append(chains, NewChain(username))

\* submitForm: this.fetchUser(formData.get("search-term")); submissions lists
\* the values submitted so far
submitForm(username) ==
  /\ Len(submissions) < MaxSubmits
  /\ submissions' = Append(submissions, username)
  /\ fetchUser(username)
  /\ UNCHANGED <<user, repos, lastUserChain, lastReposChain, input, output>>

\* a state update that replaces the state instead of merging into it
setStateUser_Replace(u) == user' = u /\ repos' = <<>>

\* this.setState({user: u}): a shallow merge, repos is kept
setStateUser(u) == user' = u /\ repos' = repos

\* a state update of repos that also resets user
setStateRepos_ResetUser(rs) == repos' = rs /\ user' = Nothing

\* a state update that adds to the repo list instead of replacing it
setStateRepos_Append(rs) == repos' = repos \o rs /\ user' = user

\* this.setState({repos: rs}): a shallow merge, user is kept
setStateRepos(rs) == repos' = rs /\ user' = user

\* a rejection handler that puts Result back to its initial variant
rejectionResetsUser == user' = Nothing /\ repos' = repos

\* a rejection handler that shows the not-found message
rejectionShowsNotFound == user' = NotFound /\ repos' = repos

\* no rejection handler is attached anywhere: a rejected chain changes nothing
unhandledRejection == user' = user /\ repos' = repos

\* chain c settles (resolved or rejected), leaving App.state as it now is
Settle(c, pc, field, out) ==
  chains' = [chains EXCEPT ![c].pc = pc, ![c][field] = out,
                           ![c].endState = [user |-> user', repos |-> repos']]

\* fetch(users/username) resolves; .then((res) => res.json()) starts parsing
fetchUserResolved(c) ==
  /\ chains[c].pc = "fetchUser"
  /\ chains' = [chains EXCEPT ![c].pc = "jsonUser"]
  /\ UNCHANGED <<user, repos, lastUserChain, lastReposChain, input, output, submissions>>

\* fetch(users/username) rejects: a network failure
fetchUserRejected(c) ==
  /\ chains[c].pc = "fetchUser"
  /\ unhandledRejection
  /\ Settle(c, "rejected", "userOut", "network")
  /\ UNCHANGED <<lastUserChain, lastReposChain, input, output, submissions>>

\* res.json() of the user response rejects: the body is not JSON
userJsonRejected(c) ==
  /\ chains[c].pc = "jsonUser"
  /\ unhandledRejection
  /\ Settle(c, "rejected", "userOut", "json")
  /\ UNCHANGED <<lastUserChain, lastReposChain, input, output, submissions>>

\* the callback of fetchUser, run with the parsed user response: the not-found
\* branch ends the chain, the other branch calls fetchRepos(res.repos_url),
\* which issues the repository request
fetchUserThen(c) ==
  /\ chains[c].pc = "jsonUser"
  /\ LET res == UserBody(chains[c].username) IN
       IF IsNotFound(res)
       THEN /\ setStateUser(NotFound)
            /\ chains' = [chains EXCEPT
                 ![c].pc = "done", ![c].userOut = "ok", ![c].userSet = user',
                 ![c].endState = [user |-> user', repos |-> repos']]
       ELSE /\ setStateUser(FoundUser(res))
            /\ chains' = [chains EXCEPT
                 ![c].pc = "fetchRepos", ![c].userOut = "ok",
                 ![c].userSet = user', ![c].reposUrl = res.repos_url,
                 ![c].reqs = Append(@, [kind |-> "repos", url |-> res.repos_url])]
  /\ lastUserChain' = c
  /\ UNCHANGED <<lastReposChain, input, output, submissions>>

\* the repository response of a search that is no longer the latest is dropped
\* and its chain left pending
fetchReposResolved_LatestOnly(c) ==
  /\ chains[c].pc = "fetchRepos"
  /\ c = Len(chains)
  /\ chains' = [chains EXCEPT ![c].pc = "jsonRepos"]
  /\ UNCHANGED <<user, repos, lastUserChain, lastReposChain, input, output, submissions>>

\* fetch(reposUrl) resolves; .then((res) => res.json()) starts parsing
fetchReposResolved(c) ==
  /\ chains[c].pc = "fetchRepos"
  /\ chains' = [chains EXCEPT ![c].pc = "jsonRepos"]
  /\ UNCHANGED <<user, repos, lastUserChain, lastReposChain, input, output, submissions>>

\* fetch(reposUrl) rejects: a network failure
fetchReposRejected(c) ==
  /\ chains[c].pc = "fetchRepos"
  /\ unhandledRejection
  /\ Settle(c, "rejected", "reposOut", "network")
  /\ UNCHANGED <<lastUserChain, lastReposChain, input, output, submissions>>

\* res.json() of the repository response rejects: the body is not JSON
reposJsonRejected(c) ==
  /\ chains[c].pc = "jsonRepos"
  /\ unhandledRejection
  /\ Settle(c, "rejected", "reposOut", "json")
  /\ UNCHANGED <<lastUserChain, lastReposChain, input, output, submissions>>

\* const repos of fetchRepos' callback, for the response of each URL that
\* answers with a repository list (evaluated once, as a table)
ComputedRepos ==
  [reposUrl \in {url \in {UserBody(n).repos_url : n \in Usernames} :
                   ReposWellFormed(url)}
     |-> TopRepos(ReposBody(reposUrl))]

\* the callback of fetchRepos, run with the parsed repository list
fetchReposThen(c) ==
  /\ chains[c].pc = "jsonRepos"
  /\ ReposWellFormed(chains[c].reposUrl)
  /\ setStateRepos(ComputedRepos[chains[c].reposUrl])
  /\ Settle(c, "done", "reposOut", "ok")
  /\ lastReposChain' = c
  /\ UNCHANGED <<lastUserChain, input, output, submissions>>

Next ==
  \/ \E username \in Usernames : submitForm(username)
  \/ \E c \in DOMAIN chains : fetchUserResolved(c)
  \/ \E c \in DOMAIN chains : fetchUserRejected(c)
  \/ \E c \in DOMAIN chains : userJsonRejected(c)
  \/ \E c \in DOMAIN chains : fetchUserThen(c)
  \/ \E c \in DOMAIN chains : fetchReposResolved(c)
  \/ \E c \in DOMAIN chains : fetchReposRejected(c)
  \/ \E c \in DOMAIN chains : reposJsonRejected(c)
  \/ \E c \in DOMAIN chains : fetchReposThen(c)

Spec == Init /\ [][Next]_vars

(***************************************************************************)
(* The program with an upstream that answers every request with a          *)
(* well-formed response: no fetch and no res.json() rejects, and only      *)
(* names whose requests the upstream answers that way are submitted.  The  *)
(* event loop runs the handler of every response that has arrived, hence   *)
(* the weak fairness of each chain's steps.                                *)
(***************************************************************************)
WellFormedUsernames ==
  {u \in Usernames :
     \/ UserBody(u).message = "Not Found"
     \/ ReposWellFormed(UserBody(u).repos_url)}

LiveStep(c) ==
  /\ c \in DOMAIN chains
  /\ \/ fetchUserResolved(c)
     \/ fetchUserThen(c)
     \/ fetchReposResolved(c)
     \/ fetchReposThen(c)

NextLive ==
  \/ \E username \in WellFormedUsernames : submitForm(username)
  \/ \E c \in DOMAIN chains : fetchUserResolved(c)
  \/ \E c \in DOMAIN chains : fetchUserThen(c)
  \/ \E c \in DOMAIN chains : fetchReposResolved(c)
  \/ \E c \in DOMAIN chains : fetchReposThen(c)

SpecLive ==
  Init /\ [][NextLive]_vars /\ \A c \in 1..MaxSubmits : WF_vars(LiveStep(c))

(***************************************************************************)
(* The repo-list computation on its own: every response of up to MaxRepos  *)
(* records is handed to TopRepos.                                          *)
(***************************************************************************)
RECURSIVE StarSeqs(_)
StarSeqs(n) ==
  IF n = 0 THEN {<<>>}
  ELSE StarSeqs(n - 1) \cup
       {Append(s, v) : s \in {t \in StarSeqs(n - 1) : Len(t) = n - 1},
                       v \in StarValues}

InitRepos ==
  /\ user = Nothing
  /\ repos = <<>>
  /\ chains = <<>>
  /\ lastUserChain = 0
  /\ lastReposChain = 0
  /\ input \in {[res |-> ResRepos(0, s), sorted |-> FALSE] : s \in StarSeqs(MaxRepos)}
  /\ output = <<>>
  /\ submissions = <<>>

computeRepos ==
  /\ ~input.sorted
  /\ input' = [input EXCEPT !.sorted = TRUE]
  /\ output' = TopRepos(input.res)
  /\ UNCHANGED <<user, repos, chains, lastUserChain, lastReposChain, submissions>>

NextRepos == computeRepos

SpecRepos == InitRepos /\ [][NextRepos]_vars

(***************************************************************************)
(* Properties.                                                             *)
(***************************************************************************)
Min(a, b) == IF a < b THEN a ELSE b

\* out is the three most-starred records of res, most stars first and the
\* earlier record first among equal stars, each cut down to {id, name, url}
IsTopThreeOf(out, res) ==
  /\ Len(out) = Min(3, Len(res))
  /\ \E p \in [1..Len(out) -> 1..Len(res)] :
       LET Before(i, j) ==
             \/ res[i].stargazers_count > res[j].stargazers_count
             \/ /\ res[i].stargazers_count = res[j].stargazers_count
                /\ i < j
       IN  /\ \A k \in 1..Len(out) :
                out[k] = [id |-> res[p[k]].id, name |-> res[p[k]].name,
                          url |-> res[p[k]].html_url]
           /\ \A k, l \in 1..Len(out) : k < l => Before(p[k], p[l])
           /\ \A j \in 1..Len(res) :
                (\A k \in 1..Len(out) : p[k] # j) =>
                  \A k \in 1..Len(out) : Before(p[k], j)

\* the Result a well-formed user response stands for
ResultOf(res) ==
  IF res.message = "Not Found" THEN [tag |-> "NotFound"]
  ELSE [tag |-> "User", avatarUrl |-> res.avatar_url, name |-> res.name,
        bio |-> res.bio]

\* C1: a submission whose user lookup answers {message: "Not Found"} sets
\* Result to NotFound and ends there: its chain has issued the user request
\* and nothing else, in every reachable state.
C1_NotFoundStops ==
  \A c \in DOMAIN chains :
    LET ch == chains[c] IN
      (ch.userOut = "ok" /\ UserBody(ch.username).message = "Not Found") =>
        /\ ch.pc = "done"
        /\ ch.userSet = [tag |-> "NotFound"]
        /\ ch.endState.user = [tag |-> "NotFound"]
        /\ ch.reqs = << [kind |-> "user", url |-> UserUrl(ch.username)] >>

C1_Witness ==
  \E c \in DOMAIN chains :
    /\ chains[c].userOut = "ok"
    /\ chains[c].username = "ghost"
    /\ user.tag = "NotFound"

\* C2: a successful user response sets Result to Found with the avatar URL,
\* name and bio of that response and issues one repository request, to the
\* repos_url of that response; a chain holds a repository request only after
\* such a response, and never more than one.
C2_FoundThenRepos ==
  \A c \in DOMAIN chains :
    LET ch == chains[c]
        res == UserBody(ch.username)
        repoReqs == {i \in DOMAIN ch.reqs : ch.reqs[i].kind = "repos"}
        found == ch.userOut = "ok" /\ res.message # "Not Found"
    IN  /\ found =>
             /\ ch.userSet = [tag |-> "User", avatarUrl |-> res.avatar_url,
                              name |-> res.name, bio |-> res.bio]
             /\ ch.reqs = << [kind |-> "user", url |-> UserUrl(ch.username)],
                             [kind |-> "repos", url |-> res.repos_url] >>
        /\ Cardinality(repoReqs) <= 1
        /\ repoReqs # {} => found
        /\ ch.pc \in {"fetchRepos", "jsonRepos"} => found

C2_Witness ==
  \E c \in DOMAIN chains :
    /\ chains[c].userOut = "ok"
    /\ chains[c].username = "alice"
    /\ chains[c].pc = "fetchRepos"
    /\ user = ResultOf(UserBody("alice"))

\* C3: while a successful lookup is between its user callback and the end of
\* its repository fetch, every search before it having settled before it was
\* submitted and none submitted since, the profile view shows that
\* response's avatar URL, name and bio and the repo view shows no repository
\* entry.
C3_NoRepoContentUntilReposResolve ==
  \A c \in DOMAIN chains :
    LET ch == chains[c]
        res == UserBody(ch.username)
    IN  (/\ ch.pc \in {"fetchRepos", "jsonRepos"}
         /\ ch.solo
         /\ c = Len(chains)) =>
          /\ Len(ProfileView) = 3
          /\ ProfileView[1].content = res.avatar_url
          /\ ProfileView[2].content = res.name
          /\ ProfileView[3].content = res.bio
          /\ \A i \in DOMAIN ReposView : ReposView[i].className # "repo-link"

\* C4: when no request is in flight, every chain ended with its last callback
\* (no failure), and Result is Found, then Result is some user's profile and
\* the repo list is the top three of that user's repositories.
C4_ReposBelongToShownUser ==
  (/\ \A c \in DOMAIN chains : chains[c].pc = "done"
   /\ user.tag = "User") =>
    \E u \in Usernames :
      LET res == UserBody(u) IN
        /\ res.message # "Not Found"
        /\ user = ResultOf(res)
        /\ ReposWellFormed(res.repos_url)
        /\ IsTopThreeOf(repos, ReposBody(res.repos_url))

\* the steps chain c can take
ChainStep(c) ==
  \/ fetchUserResolved(c)
  \/ fetchUserRejected(c)
  \/ userJsonRejected(c)
  \/ fetchUserThen(c)
  \/ fetchReposResolved(c)
  \/ fetchReposRejected(c)
  \/ reposJsonRejected(c)
  \/ fetchReposThen(c)

\* C5: no chain is cancelled by another submission (an unsettled chain can
\* always take its next step, and a chain is rejected only by a failure of
\* its own request), and once every chain is settled Result is what the user
\* callback that ran last wrote and the repo list is what the repository
\* callback that ran last wrote, whichever submission came first.
C5_LastWriteWins ==
  /\ \A c \in DOMAIN chains :
       /\ ~Settled(chains[c]) => ENABLED ChainStep(c)
       /\ chains[c].pc = "rejected" =>
            \/ chains[c].userOut \in {"network", "json"}
            \/ chains[c].reposOut \in {"network", "json"}
  /\ Quiescent =>
       /\ user = IF lastUserChain = 0 THEN [tag |-> "Nothing"]
                 ELSE ResultOf(UserBody(chains[lastUserChain].username))
       /\ IF lastReposChain = 0 THEN repos = <<>>
          ELSE IsTopThreeOf(repos,
                 ReposBody(UserBody(chains[lastReposChain].username).repos_url))

C5_Witness ==
  /\ Len(chains) = 2
  /\ Quiescent
  /\ ~chains[2].solo
  /\ chains[1].username = "alice"
  /\ chains[2].username = "bob"
  /\ lastUserChain = 1
  /\ lastReposChain = 2
  /\ user = ResultOf(UserBody("alice"))
  /\ Len(repos) = 2

\* C6: the repo list fetchRepos computes from a response is the response
\* sorted by star count, most first, records of equal count in input order,
\* each cut down to {id, name, url = html_url}, and only the first 3 kept: it
\* has min(3, n) entries, and star counts 5, 20, 20, 1, 9 give the second,
\* third and fifth records.
C6_SortedTopThree ==
  input.sorted =>
    /\ Len(output) = Min(3, Len(input.res))
    /\ IsTopThreeOf(output, input.res)
    /\ input.res = ResRepos(0, <<5, 20, 20, 1, 9>>) =>
         output = << [id |-> 2, name |-> <<"name", 2>>, url |-> <<"html", 2>>],
                     [id |-> 3, name |-> <<"name", 3>>, url |-> <<"html", 3>>],
                     [id |-> 5, name |-> <<"name", 5>>, url |-> <<"html", 5>>] >>

C6_Witness ==
  /\ input.sorted
  /\ input.res = ResRepos(0, <<5, 20, 20, 1, 9>>)
  /\ Len(output) = 3
  /\ output[1].id = 2

\* C7: the repo view renders something only when Result is Found; when
\* Result is NotFound the profile view is the not-found message and the repo
\* view renders nothing, whatever the repo list holds.
C7_RepoViewOnlyWhenFound ==
  /\ ReposView # <<>> => user.tag = "User"
  /\ user.tag = "NotFound" =>
       /\ ProfileView = << [el |-> "div", className |-> "warning-message",
                            content |-> "User not found."] >>
       /\ ReposView = <<>>

C7_Witness ==
  /\ user.tag = "NotFound"
  /\ repos # <<>>
  /\ ReposView = <<>>

\* C8: before any submission the state is {Nothing, []}, exactly one variant
\* is active, the profile view is the "You haven't made any requests yet."
\* message and the repo view renders nothing.
C8_InitialState ==
  chains = <<>> =>
    /\ user = [tag |-> "Nothing"]
    /\ repos = <<>>
    /\ Cardinality({t \in {"User", "NotFound", "Nothing"} : user.tag = t}) = 1
    /\ ProfileView = << [el |-> "div", className |-> "warning-message",
                         content |-> "You haven't made any requests yet."] >>
    /\ ReposView = <<>>

C8_Witness ==
  /\ chains = <<>>
  /\ user.tag = "Nothing"
  /\ ProfileView[1].className = "warning-message"

\* C9: when a username is submitted, its chain settles, the same username is
\* submitted again and the upstream answers both alike, with no other chain
\* unsettled meanwhile, the state the second chain leaves is the state the
\* first left.
C9_Idempotent ==
  \A c \in DOMAIN chains :
    (/\ c > 1
     /\ Settled(chains[c])
     /\ chains[c].solo
     /\ chains[c - 1].solo
     /\ c + 1 \in DOMAIN chains => chains[c + 1].solo
     /\ chains[c].username = chains[c - 1].username
     /\ chains[c].userOut = chains[c - 1].userOut
     /\ chains[c].reposOut = chains[c - 1].reposOut) =>
      /\ chains[c].endState = chains[c - 1].endState
      /\ (c = Len(chains) /\ Quiescent) =>
           [user |-> user, repos |-> repos] = chains[c - 1].endState

C9_Witness ==
  /\ Len(chains) = 2
  /\ Quiescent
  /\ chains[2].solo
  /\ chains[1].username = "alice"
  /\ chains[2].username = "alice"
  /\ chains[1].pc = "done"
  /\ chains[2].pc = "done"
  /\ Len(repos) = 3

\* C10: a step in which a chain's request fails (the network, or a body that
\* is not JSON) leaves Result and the repo list as they were and issues no
\* request; a failed chain never takes another step; Result is never
\* anything but one of the three variants.
C10_FailureChangesNothing ==
  /\ [][\A c \in DOMAIN chains :
          /\ (chains[c].pc # "rejected" /\ chains'[c].pc = "rejected") =>
               /\ user' = user
               /\ repos' = repos
               /\ chains'[c].reqs = chains[c].reqs
               /\ \A d \in DOMAIN chains : chains'[d].reqs = chains[d].reqs
          /\ chains[c].pc = "rejected" => chains'[c] = chains[c]]_vars
  /\ [](user.tag \in {"User", "NotFound", "Nothing"})

C10_Witness ==
  /\ Len(chains) = 2
  /\ chains[1].pc = "done"
  /\ chains[2].pc = "rejected"
  /\ chains[2].reposOut = "json"
  /\ chains[2].username = "bob"
  /\ user = ResultOf(UserBody("bob"))
  /\ Len(repos) = 3

\* C11: every submission issues one user request, for the submitted value as
\* it is (the empty string too), whatever is still in flight: there are as
\* many chains, each holding exactly one user request, as submissions, and
\* the i-th one asks for the i-th submitted value.
C11_OneUserRequestPerSubmission ==
  /\ Len(chains) = Len(submissions)
  /\ \A i \in DOMAIN submissions :
       /\ i \in DOMAIN chains
       /\ {k \in DOMAIN chains[i].reqs : chains[i].reqs[k].kind = "user"} = {1}
       /\ chains[i].reqs[1].url =
            <<"https://api.github.com/users/", submissions[i]>>

C11_Witness ==
  /\ submissions = <<"", "">>
  /\ Len(chains) = 2
  /\ chains[1].pc = "fetchUser"
  /\ chains[2].pc = "fetchUser"
  /\ chains[2].reqs[1].url = <<"https://api.github.com/users/", "">>

\* C12: App.state changes only in the two callbacks, one field each: a step
\* that runs a user callback writes Result and keeps the repo list, a step
\* that runs a repository callback writes the repo list and keeps Result, and
\* every other step (a submission among them) keeps both.
C12_FrameOfCallbacks ==
  [][LET userDone ==
           \E c \in DOMAIN chains :
             chains[c].pc = "jsonUser" /\ chains'[c].userOut = "ok"
         reposDone ==
           \E c \in DOMAIN chains :
             chains[c].pc = "jsonRepos" /\ chains'[c].reposOut = "ok"
     IN  /\ userDone =>
              /\ repos' = repos
              /\ user' = ResultOf(UserBody(chains[lastUserChain'].username))
         /\ reposDone =>
              /\ user' = user
              /\ IsTopThreeOf(repos',
                   ReposBody(chains[lastReposChain'].reposUrl))
         /\ user' # user => userDone
         /\ repos' # repos => reposDone
         /\ submissions' # submissions => (user' = user /\ repos' = repos)]_vars

C12_Witness ==
  /\ Len(chains) = 2
  /\ chains[1].pc = "done"
  /\ chains[2].pc = "fetchRepos"
  /\ user = ResultOf(UserBody("bob"))
  /\ Len(repos) = 3
  /\ lastReposChain = 1

\* C13: a parsed user response is taken for not-found exactly when its
\* message is the string "Not Found": then Result is NotFound and the chain
\* has no repository request; with any other message, a response without
\* profile fields included, Result is Found built from avatar_url, name and
\* bio as they are and a repository request goes to its repos_url.
C13_ExactSentinel ==
  \A c \in DOMAIN chains :
    LET ch == chains[c]
        res == UserBody(ch.username)
        asked == {ch.reqs[k].url : k \in {k \in DOMAIN ch.reqs : ch.reqs[k].kind = "repos"}}
    IN  ch.userOut = "ok" =>
          /\ (ch.userSet = [tag |-> "NotFound"]) <=> (res.message = "Not Found")
          /\ res.message = "Not Found" => asked = {}
          /\ res.message # "Not Found" =>
               /\ ch.userSet.tag = "User"
               /\ ch.userSet.avatarUrl = res.avatar_url
               /\ ch.userSet.name = res.name
               /\ ch.userSet.bio = res.bio
               /\ asked = {res.repos_url}

C13_Witness ==
  \E c \in DOMAIN chains :
    /\ chains[c].username = ""
    /\ chains[c].userOut = "ok"
    /\ chains[c].pc = "fetchRepos"
    /\ user = [tag |-> "User", avatarUrl |-> "undefined", name |-> "undefined",
               bio |-> "undefined"]
    /\ chains[c].reqs[2].url = "undefined"

\* C14: the repo list is empty as long as no user lookup has completed with a
\* found user, and it is non-empty only if some chain's user lookup found a
\* user and that chain's repository callback has run.
C14_ReposEmptyUntilFound ==
  LET Found(c) ==
        /\ chains[c].userOut = "ok"
        /\ UserBody(chains[c].username).message # "Not Found"
  IN  /\ (\A c \in DOMAIN chains : ~Found(c)) => repos = <<>>
      /\ repos # <<>> =>
           \E c \in DOMAIN chains : Found(c) /\ chains[c].reposOut = "ok"

C14_Witness ==
  /\ Len(chains) = 2
  /\ chains[1].username = "ghost"
  /\ chains[1].pc = "done"
  /\ chains[2].username = "alice"
  /\ chains[2].pc = "jsonRepos"
  /\ repos = <<>>

\* C15: with every request answered by a well-formed response, every
\* submitted chain eventually has its user callback applied and, if the user
\* was found, its repository callback too, whatever chains overlap it; and
\* from some point on no request is in flight.
C15_ChainsComplete ==
  /\ \A c \in 1..MaxSubmits :
       (c \in DOMAIN chains) ~>
         (/\ c \in DOMAIN chains
          /\ chains[c].pc = "done"
          /\ chains[c].userOut = "ok"
          /\ chains[c].userSet.tag \in {"User", "NotFound"}
          /\ UserBody(chains[c].username).message # "Not Found" =>
               chains[c].reposOut = "ok")
  /\ <>[]Quiescent

C15_Witness ==
  /\ Len(chains) = 2
  /\ ~chains[2].solo
  /\ chains[1].pc = "done"
  /\ chains[2].pc = "done"
  /\ chains[1].reposOut = "ok"
  /\ chains[2].reposOut = "ok"
  /\ lastReposChain = 1

\* C16: once a user callback has run, Result is Found or NotFound and the
\* profile view is not the "You haven't made any requests yet." message, in
\* every later state.
C16_NeverBackToNothing ==
  (\E c \in DOMAIN chains : chains[c].userOut = "ok") =>
    /\ user.tag \in {"User", "NotFound"}
    /\ ProfileView # << [el |-> "div", className |-> "warning-message",
                         content |-> "You haven't made any requests yet."] >>

C16_Witness ==
  /\ Len(chains) = 2
  /\ chains[1].userOut = "ok"
  /\ chains[1].pc = "done"
  /\ chains[2].pc = "rejected"
  /\ user.tag = "NotFound"

\* C17: the repo list in state never has more than 3 entries.
C17_AtMostThreeRepos == Len(repos) <= 3

C17_Witness ==
  /\ Len(chains) = 2
  /\ ~chains[2].solo
  /\ Quiescent
  /\ lastReposChain = 1
  /\ chains[2].reposOut = "ok"
  /\ Len(repos) = 3

====
